---- MODULE Spec2Model ----
(***************************************************************************)
(* Ticket lifecycle controller, blacklist gate, appeal conversation engine *)
(* and review gate of src/bot.py, as a state machine.                      *)
(*                                                                         *)
(* Every interactive action of the bot runs as its own asyncio task.  A    *)
(* task runs without interruption from one `await` to the next, so each    *)
(* action below is one such segment of a handler: its guard is the         *)
(* position of the task, its effect everything the code does up to the     *)
(* next suspension.                                                        *)
(*                                                                         *)
(* A handler that raises is modelled as raising: the view or command       *)
(* dispatcher of the library logs the exception, the rest of the handler   *)
(* does not run.                                                           *)
(***************************************************************************)
EXTENDS Naturals, Integers, Sequences, FiniteSets, TLC

----------------------------------------------------------------------------
(* Bounds of the model *)

\* creation-button presses served in one behaviour of Spec
MaxTasks == 2
\* creation-button presses served in one behaviour of SpecLife
MaxLifeTasks == 1
\* creation-button presses served in one behaviour of SpecAppeal
MaxAppealTasks == 1
\* /ticket commands suspended at channel.edit at one time
MaxPending == 1
\* answers below the minimum length given in one appeal conversation
MaxShort == 2
\* runs of characters in the text of one channel history
MaxRuns == 3
\* button presses on the panel while appeals are under way
MaxBusyTasks == 2
\* /ticket commands suspended in channel.edit at the same time
MaxRacing == 2
\* presses of Submit Appeal on one summary
MaxSubmits == 2
\* ticks of the clock that make up the time limit of one wait_for
QuestionTicks == 2

----------------------------------------------------------------------------
(* Program constants *)

LimitStandard == 3
LimitTryout == 1
LimitReport == 10
HardLimit == 15
DefaultCounter == 1
\* min_length of appeal questions 1 and 2
MinAnswerLen == 5
Reserve == 200
MarkerLen == 48
EmptyLen == 37

----------------------------------------------------------------------------
(* The guild: members and their roles.  Ids are numbers; 12 has 1 as a     *)
(* leading part of its decimal form.  Channel ids (ChanId) have no member  *)
(* id as a leading part.                                                   *)

PlainMembers == {1, 12}
StaffMembers == {2, 4}
Admins == {3}
Members == PlainMembers \cup StaffMembers \cup Admins

TicketTypes == {"ticket", "tryout", "report"}

----------------------------------------------------------------------------
(* Channel topics.  A topic is the sequence of its space-separated words   *)
(* (str.split(" ")); a word is a marker (prefix k, then an id or a type    *)
(* tag), plain text, or the empty string between two adjacent spaces.      *)

OwnerTok(id) == [k |-> "ticket-user-", id |-> id, t |-> ""]
TypeTok(ty) == [k |-> "type-", id |-> 0, t |-> ty]
ClaimTok(id) == [k |-> "claimed-by-", id |-> id, t |-> ""]
WordTok(w) == [k |-> "word", id |-> 0, t |-> w]
EmptyTok == [k |-> "", id |-> 0, t |-> ""]

\* str(a) is a leading part of str(b)
RECURSIVE DecPrefix(_, _)
DecPrefix(a, b) ==
    IF a = b THEN TRUE
    ELSE IF b < 10 THEN FALSE
    ELSE DecPrefix(a, b \div 10)

\* f"ticket-user-{uid}" in topic
OwnerIn(uid, topic) ==
    \E i \in 1..Len(topic) : topic[i].k = "ticket-user-" /\ DecPrefix(uid, topic[i].id)

\* f"type-{ty}" in topic
TypeIn(ty, topic) ==
    \E i \in 1..Len(topic) : topic[i].k = "type-" /\ topic[i].t = ty

\* "claimed-by-" in topic
HasClaim(topic) ==
    \E i \in 1..Len(topic) : topic[i].k = "claimed-by-"

\* topic.split("claimed-by-")[-1].split(" ")[0], as an int
ClaimerId(topic) ==
    LET idx == {i \in 1..Len(topic) : topic[i].k = "claimed-by-"}
        last == CHOOSE i \in idx : \A j \in idx : j <= i
    IN  topic[last].id

\* the topic create_ticket_channel gives a new channel
NewTopic(uid, ty) ==
    << WordTok("Ticket"), WordTok("for"), WordTok("<name>"), WordTok("(<id>)."),
       WordTok("Type:"), WordTok("<type>."), WordTok("Do"), WordTok("not"),
       WordTok("modify"), WordTok("'ticket-user-ID'."),
       OwnerTok(uid), TypeTok(ty) >>

\* str.strip() of the words joined by single spaces: leading and trailing
\* empty words go
RECURSIVE StripLeft(_)
StripLeft(s) ==
    IF s # << >> /\ Head(s) = EmptyTok THEN StripLeft(Tail(s)) ELSE s

RECURSIVE StripRight(_)
StripRight(s) ==
    IF s # << >> /\ s[Len(s)] = EmptyTok THEN StripRight(SubSeq(s, 1, Len(s) - 1)) ELSE s

Strip(s) == StripRight(StripLeft(s))

----------------------------------------------------------------------------
(* State *)

VARIABLES
    settings,   \* the guild's entry of bot.settings (settings.json)
    chans,      \* the ticket channels ever created, in order of creation
    tasks,      \* the creation-button tasks, in order of arrival
    cmds,       \* slash-command tasks suspended at channel.edit
    last,       \* the command or button handler that answered last, and its answer
    convs,      \* the appeal conversations, one per appeal DM sent
    records,    \* the Review Records in the staff appeal channel
    transcript  \* the text of a channel's history and the transcript made of it

vars == << settings, chans, tasks, cmds, last, convs, records, transcript >>

\* the id of the i-th channel created
ChanId(i) == 90 + i
ChanIdx == 1..Len(chans)

\* the settings keys hold None ("none"), the id of a live guild object
\* ("ok"), or an id guild.get_channel / guild.get_role no longer resolves
\* ("stale")
AllOk ==
    [panel_channel |-> "ok", ticket_category |-> "ok", archive_category |-> "ok",
     staff_role |-> "ok", appeal_channel |-> "ok"]

InitConfigs ==
    { AllOk,
      [AllOk EXCEPT !.staff_role = "stale"],
      [AllOk EXCEPT !.ticket_category = "stale"],
      [AllOk EXCEPT !.archive_category = "none"],
      [AllOk EXCEPT !.staff_role = "none"],
      [AllOk EXCEPT !.ticket_category = "none"],
      [AllOk EXCEPT !.panel_channel = "none"] }

NoLast == [op |-> "none", resp |-> ""]

\* the conversation an appeal DM opens.  The messages of the DM channel are
\* numbered in the order they are sent (sent is the last number): message 1
\* is the DM with the start button.  list is messages_to_delete followed by
\* ask_question's bot_msgs_to_delete, user the messages the member wrote,
\* dm the messages that are in the channel, err the pending "Input Too
\* Short" notice (0: none), summary the confirmation message (0: none),
\* deleted the messages a cleanup deleted, in the order it deleted them,
\* edited whether the summary shows "Appeal Timed Out", answers the keys of
\* start_appeal's answers dict.
NewConv(m) ==
    [member |-> m, pc |-> "start", short |-> 0, err |-> 0, sent |-> 1,
     list |-> << >>, user |-> {}, dm |-> {1}, deleted |-> << >>,
     summary |-> 0, edited |-> FALSE, answers |-> {}, submitted |-> FALSE,
     presses |-> 0, sending |-> 0, wait |-> 0,
     result |-> ""]

\* the message ConfirmAppealView.submit sends to the staff appeal channel:
\* the embed with the footer "User ID: <subject>" and the review buttons.
\* The footer is kept as its label and what follows ": " (digits: it reads
\* as a number, id).  pressed, outcomes and notified record what happened
\* to the record.
NewRecord(m, v) ==
    [subject |-> m, conv |-> v, view |-> TRUE, status |-> "open",
     footer |-> [label |-> "User ID:", digits |-> TRUE, id |-> m],
     modals |-> {}, pressed |-> {}, outcomes |-> 0, notified |-> 0]

----------------------------------------------------------------------------
(* Blacklist gate and ticket creation *)

\* count_user_tickets(guild, user_id, category_id, ticket_type)
count_user_tickets(uid, catcfg, ty) ==
    IF catcfg # "ok" THEN 0
    ELSE Cardinality({ i \in ChanIdx :
            /\ chans[i].cat = "ticket"
            /\ OwnerIn(uid, chans[i].topic)
            /\ (ty # "" => TypeIn(ty, chans[i].topic)) })

\* LIMIT of the three creation buttons
Limit(ty) ==
    CASE ty = "ticket" -> LimitStandard
      [] ty = "tryout" -> LimitTryout
      [] ty = "report" -> LimitReport

\* a gate whose setup check lets every configuration pass
SetupUnchecked == TRUE

\* the required settings of the gate are all truthy
SetupComplete ==
    /\ settings.cfg.panel_channel # "none"
    /\ settings.cfg.ticket_category # "none"
    /\ settings.cfg.archive_category # "none"
    /\ settings.cfg.staff_role # "none"

\* the gate without its blacklist test
interaction_check_setup_only(m) ==
    IF ~SetupComplete THEN "SystemOffline" ELSE "ok"

\* TicketPanelView.interaction_check: the blacklist check, then the setup check
interaction_check(m) ==
    IF m \in settings.blacklist THEN "Blacklisted"
    ELSE IF ~SetupComplete THEN "SystemOffline"
    ELSE "ok"

\* the button callback up to its first await: category set, then the
\* per-type limit
button_check(m, ty) ==
    IF settings.cfg.ticket_category = "none" THEN "SetupError"
    ELSE IF count_user_tickets(m, settings.cfg.ticket_category, ty) >= Limit(ty)
         THEN "LimitReached"
    ELSE "defer"

\* create_ticket_channel up to the counter: role, category and hard limit
create_check(m) ==
    IF settings.cfg.staff_role # "ok" THEN "ConfigError"
    ELSE IF settings.cfg.ticket_category # "ok" THEN "ConfigError"
    ELSE IF count_user_tickets(m, settings.cfg.ticket_category, "") > HardLimit
         THEN "LimitReached"
    ELSE "ok"

\* the counter stored back as it was read
next_counter_same(ticket_num) == ticket_num

\* the value update_guild_setting stores in ticket_counter
next_counter(ticket_num) == ticket_num + 1

\* bl records whether the member was in the blacklist map when pressing
NewTask(m, ty, pc, res) ==
    [member |-> m, type |-> ty, pc |-> pc, num |-> 0, chan |-> 0,
     result |-> res, bl |-> (m \in settings.blacklist), dm |-> FALSE]

\* A member presses a creation button: interaction_check, then the button
\* callback up to interaction.response.defer.  Nothing awaits between the
\* blacklist test and the limit test.
Press(m, ty) ==
    /\ LET gate == interaction_check(m)
           btn == button_check(m, ty)
       IN  tasks' = Append(tasks,
              CASE gate = "Blacklisted" -> NewTask(m, ty, "appeal_dm", "Blacklisted")
                [] gate = "SystemOffline" -> NewTask(m, ty, "done", "SystemOffline")
                [] gate = "ok" /\ btn # "defer" -> NewTask(m, ty, "done", btn)
                [] OTHER -> NewTask(m, ty, "deferred", ""))
    /\ UNCHANGED << settings, chans, cmds, last, convs, records, transcript >>

\* send_appeal_dm: the DM with the start view is sent, or the member's
\* DMs are closed (Forbidden) and the failure is printed
SendAppealDm(t, ok) ==
    /\ tasks[t].pc = "appeal_dm"
    /\ tasks' = [tasks EXCEPT ![t].pc = "done", ![t].dm = ok]
    /\ convs' = IF ok THEN Append(convs, NewConv(tasks[t].member)) ELSE convs
    /\ UNCHANGED << settings, chans, cmds, last, records, transcript >>

\* create_ticket_channel after the defer, up to category.create_text_channel:
\* the checks, then ticket_num is read and ticket_num + 1 stored with no
\* await in between
Allocate(t) ==
    /\ tasks[t].pc = "deferred"
    /\ LET chk == create_check(tasks[t].member)
       IN  IF chk # "ok"
           THEN /\ tasks' = [tasks EXCEPT ![t].pc = "done", ![t].result = chk]
                /\ UNCHANGED settings
           ELSE /\ tasks' = [tasks EXCEPT ![t].pc = "creating",
                                          ![t].num = settings.ticket_counter]
                /\ settings' = [settings EXCEPT
                                  !.ticket_counter = next_counter(settings.ticket_counter)]
    /\ UNCHANGED << chans, cmds, last, convs, records, transcript >>

\* category.create_text_channel returns the new channel, or raises
\* (Forbidden or another error): the task reports it and returns None, None
Create(t, ok) ==
    /\ tasks[t].pc = "creating"
    /\ IF ok
       THEN /\ chans' = Append(chans,
                   [owner |-> tasks[t].member, type |-> tasks[t].type,
                    num |-> tasks[t].num, topic |-> NewTopic(tasks[t].member, tasks[t].type),
                    cat |-> "ticket", name |-> "created", task |-> t,
                    buttons |-> tasks[t].type # "tryout"])
            /\ tasks' = [tasks EXCEPT
                           ![t].pc = IF tasks[t].type = "tryout" THEN "tryout" ELSE "done",
                           ![t].chan = Len(chans) + 1,
                           ![t].result = "Created"]
       ELSE /\ tasks' = [tasks EXCEPT ![t].pc = "done", ![t].result = "PermissionsError"]
            /\ UNCHANGED chans
    /\ UNCHANGED << settings, cmds, last, convs, records, transcript >>

\* tryout_ticket: both application steps answered in time; the summary is
\* sent with the close/delete buttons
TryoutComplete(t) ==
    /\ tasks[t].pc = "tryout"
    /\ chans[tasks[t].chan].cat # "deleted"
    /\ tasks' = [tasks EXCEPT ![t].pc = "done"]
    /\ chans' = [chans EXCEPT ![tasks[t].chan].buttons = TRUE]
    /\ UNCHANGED << settings, cmds, last, convs, records, transcript >>

\* tryout_ticket: wait_for raises TimeoutError at step 1 or 2; the notice
\* is sent and the task sleeps 10 s
TryoutTimeout(t) ==
    /\ tasks[t].pc = "tryout"
    /\ tasks' = [tasks EXCEPT ![t].pc = "tryout_sleep"]
    /\ UNCHANGED << settings, chans, cmds, last, convs, records, transcript >>

\* tryout_ticket after the sleep: channel.delete (NotFound is passed over).
\* The channel is gone, and its topic, name and messages with it; owner,
\* type and num stay as the record of what was created.
TryoutDelete(t) ==
    /\ tasks[t].pc = "tryout_sleep"
    /\ tasks' = [tasks EXCEPT ![t].pc = "done"]
    /\ chans' = [chans EXCEPT ![tasks[t].chan] =
                   [@ EXCEPT !.cat = "deleted", !.topic = << >>, !.name = "",
                             !.buttons = FALSE]]
    /\ UNCHANGED << settings, cmds, last, convs, records, transcript >>

----------------------------------------------------------------------------
(* Staff commands on a ticket channel: /ticket claim, unclaim, rename *)

\* the channel check without the comparison of categories
in_ticket_channel_check_any(c) ==
    settings.cfg.ticket_category = "ok"

\* in_ticket_channel_check: the channel's category is the configured one
in_ticket_channel_check(c) ==
    chans[c].cat = "ticket" /\ settings.cfg.ticket_category = "ok"

\* is_staff_interaction: the member holds the staff role or is an
\* administrator
is_staff_interaction(a) ==
    \/ (settings.cfg.staff_role = "ok" /\ a \in StaffMembers)
    \/ a \in Admins

\* the checks of a /ticket command, in the order the decorators register
\* them: the channel check, then the staff check
cmd_checks(a, c) ==
    IF ~in_ticket_channel_check(c) THEN "InvalidChannel"
    ELSE IF ~is_staff_interaction(a) THEN "PermissionDenied"
    ELSE "ok"

\* base_topic of ticket_claim and ticket_unclaim: the first word if it is
\* an owner marker, else a marker made from the channel id
base_topic(topic, c) ==
    IF topic # << >> /\ topic[1].k = "ticket-user-" THEN topic[1]
    ELSE OwnerTok(ChanId(c))

\* type_topic: the second word if it is a type marker, else ""
type_topic(topic) ==
    IF Len(topic) > 1 /\ topic[2].k = "type-" THEN topic[2] ELSE EmptyTok

\* new_topic of ticket_claim
claim_topic(topic, c, a) ==
    Strip(<< base_topic(topic, c), type_topic(topic), ClaimTok(a) >>)

\* new_topic of ticket_unclaim
unclaim_topic(topic, c) ==
    Strip(<< base_topic(topic, c), type_topic(topic) >>)

\* ticket_claim without the test for a claim marker
ticket_claim_overwrite(topic) == "edit"

\* ticket_claim up to its try block: a topic with a claim marker is
\* answered "Already Claimed", any other topic is edited
ticket_claim(topic) ==
    IF HasClaim(topic) THEN "AlreadyClaimed" ELSE "edit"

\* ticket_unclaim without the test of the actor against the claimer
ticket_unclaim_any_staff(a, topic) ==
    IF ~HasClaim(topic) THEN "NotClaimed" ELSE "edit"

\* ticket_unclaim up to its try block: no claim marker, then the actor is
\* neither the claimer read from the topic nor an administrator
ticket_unclaim(a, topic) ==
    IF ~HasClaim(topic) THEN "NotClaimed"
    ELSE IF a # ClaimerId(topic) /\ a \notin Admins THEN "PermissionDenied"
    ELSE "edit"

Cmd(kind, a, c, resp) ==
    [op |-> kind, resp |-> resp]

\* /ticket claim up to channel.edit
ClaimCmd(a, c) ==
    /\ chans[c].cat # "deleted"
    /\ LET chk == cmd_checks(a, c)
           topic == chans[c].topic
       IN  IF chk # "ok"
           THEN last' = Cmd("claim", a, c, chk) /\ UNCHANGED cmds
           ELSE IF ticket_claim(topic) # "edit"
           THEN last' = Cmd("claim", a, c, ticket_claim(topic)) /\ UNCHANGED cmds
           ELSE /\ last' = Cmd("claim", a, c, "")
                /\ cmds' = cmds \cup
                      {[kind |-> "claim", chan |-> c,
                        topic |-> claim_topic(topic, c, a)]}
    /\ UNCHANGED << settings, chans, tasks, convs, records, transcript >>

\* /ticket unclaim up to channel.edit
UnclaimCmd(a, c) ==
    /\ chans[c].cat # "deleted"
    /\ LET chk == cmd_checks(a, c)
           topic == chans[c].topic
       IN  IF chk # "ok"
           THEN last' = Cmd("unclaim", a, c, chk) /\ UNCHANGED cmds
           ELSE IF ticket_unclaim(a, topic) # "edit"
           THEN last' = Cmd("unclaim", a, c, ticket_unclaim(a, topic)) /\ UNCHANGED cmds
           ELSE /\ last' = Cmd("unclaim", a, c, "")
                /\ cmds' = cmds \cup
                      {[kind |-> "unclaim", chan |-> c,
                        topic |-> unclaim_topic(topic, c)]}
    /\ UNCHANGED << settings, chans, tasks, convs, records, transcript >>

\* /ticket rename up to channel.edit
RenameCmd(a, c) ==
    /\ chans[c].cat # "deleted"
    /\ LET chk == cmd_checks(a, c)
       IN  IF chk # "ok"
           THEN last' = Cmd("rename", a, c, chk) /\ UNCHANGED cmds
           ELSE /\ last' = Cmd("rename", a, c, "")
                /\ cmds' = cmds \cup
                      {[kind |-> "rename", chan |-> c, topic |-> << >>]}
    /\ UNCHANGED << settings, chans, tasks, convs, records, transcript >>

\* channel.edit of a suspended command returns, or raises Forbidden; on a
\* channel deleted meanwhile it raises NotFound, reported as "Error"
Edit(cmd, ok) ==
    /\ cmd \in cmds
    /\ cmds' = cmds \ {cmd}
    /\ LET c == cmd.chan
       IN  IF chans[c].cat = "deleted"
           THEN /\ UNCHANGED chans
                /\ last' = [op |-> "edit", resp |-> "Error"]
           ELSE IF ~ok
           THEN /\ UNCHANGED chans
                /\ last' = [op |-> "edit", resp |-> "PermissionsError"]
           ELSE /\ chans' = [chans EXCEPT ![c] =
                       IF cmd.kind = "rename"
                       THEN [@ EXCEPT !.name = "renamed"]
                       ELSE [@ EXCEPT !.topic = cmd.topic]]
                /\ last' = [op |-> "edit", resp |-> cmd.kind]
    /\ UNCHANGED << settings, tasks, convs, records, transcript >>

----------------------------------------------------------------------------
(* The close and delete buttons of a ticket channel *)

\* the instance attributes each view's __init__ assigns
ViewAttrs(view) ==
    CASE view = "TicketPanelView" -> {"bot"}
      [] view = "TicketCloseView" -> {"bot"}
      [] view = "AppealReviewView" -> {"bot"}

\* reading self.<attr> of a view: the attribute, or AttributeError
GetAttr(view, attr) ==
    IF attr \in ViewAttrs(view) THEN "bot" ELSE "AttributeError"

\* TicketCloseView.close_ticket: self.bot_ref is read first; then the
\* creator (owner marker of the actor in the topic), staff or an
\* administrator gets the reason modal
close_ticket(a, c) ==
    IF GetAttr("TicketCloseView", "bot_ref") = "AttributeError" THEN "AttributeError"
    ELSE IF \/ OwnerIn(a, chans[c].topic)
            \/ (settings.cfg.staff_role = "ok" /\ a \in StaffMembers)
            \/ a \in Admins
         THEN "Modal"
    ELSE "PermissionDenied"

\* TicketCloseView.delete_ticket: self.bot_ref is read first; then the
\* staff role must resolve and the actor be staff or an administrator
delete_ticket(a, c) ==
    IF GetAttr("TicketCloseView", "bot_ref") = "AttributeError" THEN "AttributeError"
    ELSE IF settings.cfg.staff_role # "ok" THEN "SetupError"
    ELSE IF a \notin StaffMembers /\ a \notin Admins THEN "PermissionDenied"
    ELSE "Deleting"

\* TicketCloseView.close_ticket_logic, which CloseReasonModal.on_submit
\* calls on a new TicketCloseView: the steps one run takes, in order.
\* self.bot_ref is read first; then the archive category must be set and
\* resolve.  upload is how the send of the closure embed with the
\* transcript file ends: "ok", an HTTPException ("http": the failure is
\* reported in the channel and the embed is sent without the file) or
\* another exception ("error": the failure is reported); move_ok is
\* whether channel.edit to the archive category succeeds.
close_ticket_logic(upload, move_ok) ==
    IF GetAttr("TicketCloseView", "bot_ref") = "AttributeError"
    THEN << "AttributeError" >>
    ELSE IF settings.cfg.archive_category # "ok" THEN << "ConfigError" >>
    ELSE << "closing_notice", "transcript" >>
         \o (CASE upload = "ok" -> << "closure_record" >>
               [] upload = "http" -> << "upload_error", "closure_record" >>
               [] OTHER -> << "upload_error" >>)
         \o << "grace" >>
         \o (IF move_ok THEN << "archived", "archive_notice" >>
                        ELSE << "archive_error" >>)

\* close_ticket_logic's channel.edit: the channel goes to the archive
\* category under the name closed-...; the topic is left as it is
archive_edit(ch) == [ch EXCEPT !.cat = "archive", !.name = "closed"]

\* the place of step x in a run (0: the run does not take it)
Pos(run, x) ==
    IF \E i \in 1..Len(run) : run[i] = x
    THEN CHOOSE i \in 1..Len(run) : run[i] = x
    ELSE 0

\* A member presses Close Ticket.  The handler raises or answers; a modal
\* is never opened, as close_ticket raises on its first line.
PressClose(a, c) ==
    /\ chans[c].cat # "deleted"
    /\ chans[c].buttons
    /\ close_ticket(a, c) # "Modal"
    /\ last' = Cmd("close", a, c, close_ticket(a, c))
    /\ UNCHANGED << settings, chans, tasks, cmds, convs, records, transcript >>

\* delete_ticket after asyncio.sleep(10): channel.delete on a channel of
\* category cat.  On a channel that is gone it raises NotFound, which is
\* passed over; refused, it raises Forbidden, which is printed.  Nothing
\* is sent to the actor in any case.
delete_after_sleep(cat, refused) ==
    IF cat = "deleted" THEN [cat |-> "deleted", printed |-> ""]
    ELSE IF refused THEN [cat |-> cat, printed |-> "Forbidden"]
    ELSE [cat |-> "deleted", printed |-> ""]

\* A member presses Delete Ticket.  The countdown is never started, as
\* delete_ticket raises on its first line.
PressDelete(a, c) ==
    /\ chans[c].cat # "deleted"
    /\ chans[c].buttons
    /\ delete_ticket(a, c) # "Deleting"
    /\ last' = Cmd("delete", a, c, delete_ticket(a, c))
    /\ UNCHANGED << settings, chans, tasks, cmds, convs, records, transcript >>

----------------------------------------------------------------------------
(* /mod blacklist and /mod unblacklist *)

\* mod_blacklist, behind has_permissions(administrator=True); the map is
\* read and written with no await in between
ModBlacklist(a, m) ==
    /\ LET resp == IF a \notin Admins THEN "PermissionDenied"
                   ELSE IF m = a THEN "Error"
                   ELSE IF m \in settings.blacklist THEN "AlreadyBlacklisted"
                   ELSE "UserBlacklisted"
       IN  /\ settings' = IF resp = "UserBlacklisted"
                          THEN [settings EXCEPT !.blacklist = @ \cup {m}]
                          ELSE settings
           /\ last' = [op |-> "blacklist", resp |-> resp]
    /\ UNCHANGED << chans, tasks, cmds, convs, records, transcript >>

\* mod_unblacklist
ModUnblacklist(a, m) ==
    /\ LET resp == IF a \notin Admins THEN "PermissionDenied"
                   ELSE IF m \notin settings.blacklist THEN "NotFound"
                   ELSE "UserUnblacklisted"
       IN  /\ settings' = IF resp = "UserUnblacklisted"
                          THEN [settings EXCEPT !.blacklist = @ \ {m}]
                          ELSE settings
           /\ last' = [op |-> "unblacklist", resp |-> resp]
    /\ UNCHANGED << chans, tasks, cmds, convs, records, transcript >>

----------------------------------------------------------------------------
(* The appeal conversation in the member's DM *)

\* the keyword parameters each view's __init__ accepts
ViewParams(view) ==
    CASE view = "TicketPanelView" -> {"bot"}
      [] view = "TicketCloseView" -> {"bot"}
      [] view = "AppealReviewView" -> {"bot"}
      [] view = "AppealStartView" -> {"bot_instance", "guild", "reason"}

\* a constructor that takes any keyword
ViewInitAny(view, kw) == "view"

\* constructing a view with one keyword argument: the view, or TypeError
ViewInit(view, kw) ==
    IF kw \in ViewParams(view) THEN "view" ELSE "TypeError"

NextQuestion(pc) ==
    CASE pc = "q1" -> "q2"
      [] pc = "q2" -> "q3"
      [] pc = "q3" -> "confirm"

\* reversed(messages)
Reverse(seq) == [i \in 1..Len(seq) |-> seq[Len(seq) + 1 - i]]

Range(seq) == { seq[i] : i \in 1..Len(seq) }

\* list.remove(msg)
Remove(seq, msg) == SelectSeq(seq, LAMBDA x : x # msg)

\* what msg.delete() does in the DM channel.  env is the platform's answer:
\* "ok", or "forbidden" when it raises discord.Forbidden for the messages
\* the bot did not write (the member's answers); the handlers pass over it.
delete_ok(cv, msg, env) == ~(env = "forbidden" /\ msg \in cv.user)

DeleteEnvs == {"ok", "forbidden"}

\* AppealStartView.start_appeal up to the first wait_for: the appeal
\* channel must be set and resolve, then question 1 is sent
StartAppeal(v) ==
    /\ convs[v].pc = "start"
    /\ LET cv == convs[v]
           n == cv.sent + 1
           sentOne == [cv EXCEPT !.sent = n, !.dm = @ \cup {n}]
       IN  convs' = [convs EXCEPT ![v] =
             CASE settings.cfg.appeal_channel = "none" ->
                    [sentOne EXCEPT !.pc = "done", !.result = "NotConfigured"]
               [] settings.cfg.appeal_channel = "stale" ->
                    [sentOne EXCEPT !.pc = "done", !.result = "InvalidChannel"]
               [] OTHER ->
                    [sentOne EXCEPT !.pc = "q1", !.list = << 1, n >>]]
    /\ UNCHANGED << settings, chans, tasks, cmds, last, records, transcript >>

\* AppealStartView.on_timeout: the start button was not pressed in time
StartTimeout(v) ==
    /\ convs[v].pc = "start"
    /\ convs' = [convs EXCEPT ![v].pc = "done", ![v].result = "expired"]
    /\ UNCHANGED << settings, chans, tasks, cmds, last, records, transcript >>

\* a validation that accepts every answer
too_short_never(pc, n) == FALSE

\* ask_question's validation: with check_proof (question 3) the message is
\* the answer; else len(msg.content) < min_length asks again
too_short(pc, n) == pc # "q3" /\ n < MinAnswerLen

\* the DM channel of member m
DmChannel(m) == << "dm", m >>

\* a check that looks at the author only
wait_check_author_only(cv, author, chan) == author = cv.member

\* the check ask_question hands to wait_for:
\* m.author == user and m.channel == channel
wait_check(cv, author, chan) == author = cv.member /\ chan = DmChannel(cv.member)

\* ask_question is suspended in wait_for
Waiting(cv) == cv.pc \in {"q1", "q2", "q3"}

\* ask_question after wait_for returns a message of n characters: the
\* message is appended to the list, a pending "Input Too Short" notice is
\* deleted and removed from the list (delok: the delete succeeded; if it
\* raises, the notice stays listed), then the answer is validated
\* (questions 1 and 2) or taken as it is (question 3); start_appeal goes on
\* to the next prompt or to the summary
Answer(cv, n, delok) ==
    LET u == cv.sent + 1
        got == [cv EXCEPT !.sent = u + 1,
                          !.user = @ \cup {u},
                          !.dm = IF cv.err # 0 /\ delok
                                 THEN (@ \cup {u, u + 1}) \ {cv.err}
                                 ELSE @ \cup {u, u + 1},
                          !.list = IF cv.err # 0 /\ delok
                                   THEN Remove(Append(@, u), cv.err)
                                   ELSE Append(@, u),
                          !.err = IF delok THEN 0 ELSE @,
                          !.wait = 0]
    IN  IF cv.pc = "q3"
        THEN [got EXCEPT !.pc = "confirm", !.summary = u + 1, !.err = 0,
                         !.answers = @ \cup {"proof"}]
        ELSE IF too_short(cv.pc, n)
        THEN [got EXCEPT !.err = u + 1, !.short = @ + 1,
                         !.list = Append(@, u + 1)]
        ELSE [got EXCEPT !.pc = NextQuestion(cv.pc), !.err = 0,
                         !.answers = @ \cup {cv.pc},
                         !.list = Append(@, u + 1)]

\* a dispatch that serves the oldest waiting wait_for only
MessageOldestOnly(author, chan, n, delok) ==
    /\ \E v \in 1..Len(convs) : Waiting(convs[v])
    /\ LET v == CHOOSE i \in 1..Len(convs) :
                   /\ Waiting(convs[i])
                   /\ \A j \in 1..(i - 1) : ~Waiting(convs[j])
       IN  convs' = [convs EXCEPT ![v] =
                       IF wait_check(@, author, chan) THEN Answer(@, n, delok) ELSE @]
    /\ UNCHANGED << settings, chans, tasks, cmds, last, records, transcript >>

\* a message of n characters is sent by author in chan: the bot offers it
\* to every wait_for that is waiting; where the check lets it through,
\* ask_question goes on with it, the others go on waiting
Message(author, chan, n, delok) ==
    /\ \E v \in 1..Len(convs) : Waiting(convs[v])
    /\ convs' = [v \in 1..Len(convs) |->
                    IF Waiting(convs[v]) /\ wait_check(convs[v], author, chan)
                    THEN Answer(convs[v], n, delok)
                    ELSE convs[v]]
    /\ UNCHANGED << settings, chans, tasks, cmds, last, records, transcript >>

\* cleanup_on_fail deleting its list front to back
cleanup_on_fail_forward(cv, env) ==
    LET done == SelectSeq(cv.list, LAMBDA msg : delete_ok(cv, msg, env))
    IN  [cv EXCEPT !.deleted = done, !.dm = @ \ Range(done)]

\* cleanup_on_fail: msg.delete() over reversed(messages), NotFound and
\* Forbidden passed over
cleanup_on_fail(cv, env) ==
    LET done == SelectSeq(Reverse(cv.list), LAMBDA msg : delete_ok(cv, msg, env))
    IN  [cv EXCEPT !.deleted = done, !.dm = @ \ Range(done)]

\* ask_question when wait_for raises: TimeoutError ("timeout") or another
\* exception ("error").  The notice is sent, ask_question returns None and
\* start_appeal runs cleanup_on_fail over the list.
QuestionFail(v, kind, env) ==
    /\ convs[v].pc \in {"q1", "q2", "q3"}
    /\ LET cv == convs[v]
           n == cv.sent + 1
       IN  convs' = [convs EXCEPT ![v] =
              cleanup_on_fail([cv EXCEPT !.pc = "done", !.result = kind,
                                         !.sent = n, !.dm = @ \cup {n}], env)]
    /\ UNCHANGED << settings, chans, tasks, cmds, last, records, transcript >>

\* the clock advances by one tick for every suspended wait_for; it cannot
\* pass the time limit of a wait_for without that wait_for timing out
Tick ==
    /\ \E v \in 1..Len(convs) : Waiting(convs[v])
    /\ \A v \in 1..Len(convs) : Waiting(convs[v]) => convs[v].wait < QuestionTicks
    /\ convs' = [v \in 1..Len(convs) |->
                    IF Waiting(convs[v]) THEN [convs[v] EXCEPT !.wait = @ + 1]
                    ELSE convs[v]]
    /\ UNCHANGED << settings, chans, tasks, cmds, last, records, transcript >>

\* wait_for raises TimeoutError once timeout seconds have passed since it
\* was called
AskTimeout(v, env) ==
    /\ v \in 1..Len(convs)
    /\ convs[v].wait = QuestionTicks
    /\ QuestionFail(v, "timeout", env)

\* a further too-short answer at question 1 or 2 after MaxShort of them:
\* the notice is sent again and wait_for is called again with the full
\* time limit.  The ids of these further messages are not tracked.
Retry(v) ==
    /\ convs[v].pc \in {"q1", "q2"}
    /\ convs[v].short = MaxShort
    /\ convs[v].wait < QuestionTicks
    /\ convs' = [convs EXCEPT ![v].wait = 0]
    /\ UNCHANGED << settings, chans, tasks, cmds, last, records, transcript >>

\* ConfirmAppealView.cleanup: the listed messages are deleted in reverse,
\* then the summary
Cleanup(cv, res, env) ==
    LET done == SelectSeq(Reverse(cv.list), LAMBDA msg : delete_ok(cv, msg, env))
                  \o << cv.summary >>
    IN  [cv EXCEPT !.pc = "done", !.result = res,
                   !.deleted = done, !.dm = @ \ Range(done)]

\* ConfirmAppealView.submit, one step of one press.  "press": the button
\* is served while the view is neither stopped nor timed out; the handler
\* defers, builds the embed and constructs the review view with the
\* keyword bot_instance.  If that raises, the handler ends there: nothing
\* is sent, cleanup does not run and the summary keeps its buttons.
\* Otherwise it is suspended in appeal_channel.send.  "send": a suspended
\* handler has its record sent (ok) or the send refused, answers the
\* member and runs cleanup.
Submit(v, step, ok, env) ==
    /\ IF step = "press"
       THEN /\ convs[v].pc = "confirm"
            /\ IF ViewInit("AppealReviewView", "bot_instance") = "TypeError"
               THEN /\ convs' = [convs EXCEPT ![v].submitted = TRUE,
                                              ![v].presses = @ + 1]
                    /\ last' = [op |-> "submit", resp |-> "TypeError"]
               ELSE /\ convs' = [convs EXCEPT ![v].submitted = TRUE,
                                              ![v].presses = @ + 1,
                                              ![v].sending = @ + 1]
                    /\ last' = [op |-> "submit", resp |-> "defer"]
            /\ UNCHANGED records
       ELSE /\ convs[v].sending > 0
            /\ convs' = [convs EXCEPT ![v] =
                  Cleanup([@ EXCEPT !.sending = @ - 1], "submitted", env)]
            /\ last' = [op |-> "submit",
                        resp |-> IF ok THEN "AppealSubmitted" ELSE "Error"]
            /\ records' = IF ok THEN Append(records, NewRecord(convs[v].member, v))
                          ELSE records
    /\ UNCHANGED << settings, chans, tasks, cmds, transcript >>

\* ConfirmAppealView.cancel
Cancel(v, env) ==
    /\ convs[v].pc = "confirm"
    /\ convs' = [convs EXCEPT ![v] = Cleanup(@, "cancelled", env)]
    /\ UNCHANGED << settings, chans, tasks, cmds, last, records, transcript >>

\* on_timeout leaving the summary as it is
on_timeout_no_edit(cv) == [cv EXCEPT !.pc = "expiring"]

\* ConfirmAppealView.on_timeout up to asyncio.sleep(15): the buttons are
\* disabled and the summary is edited to "Appeal Timed Out"
on_timeout_edit(cv) == [cv EXCEPT !.pc = "expiring", !.edited = TRUE]

\* ConfirmAppealView.on_timeout: the view has timed out (its buttons are
\* served no more) and the summary is edited
ConfirmTimeout(v) ==
    /\ convs[v].pc = "confirm"
    /\ convs' = [convs EXCEPT ![v] = on_timeout_edit(@)]
    /\ UNCHANGED << settings, chans, tasks, cmds, last, records, transcript >>

\* ConfirmAppealView.on_timeout after the sleep: cleanup
TimeoutCleanup(v, env) ==
    /\ convs[v].pc = "expiring"
    /\ convs' = [convs EXCEPT ![v] = Cleanup(@, "confirm_timeout", env)]
    /\ UNCHANGED << settings, chans, tasks, cmds, last, records, transcript >>

----------------------------------------------------------------------------
(* The review gate: the Approve and Reject buttons of a Review Record *)

\* a check that lets every actor through
review_check_open(a) == "ok"

\* AppealReviewView.interaction_check: self.bot_ref is read first; then the
\* staff role must be set and the actor be staff or an administrator
review_check(a) ==
    IF GetAttr("AppealReviewView", "bot_ref") = "AttributeError" THEN "AttributeError"
    ELSE IF settings.cfg.staff_role = "none" THEN "Error"
    ELSE IF (settings.cfg.staff_role = "ok" /\ a \in StaffMembers) \/ a \in Admins
         THEN "ok"
    ELSE "PermissionDenied"

\* approve / reject reading the subject out of the footer: the footer
\* must hold "User ID:" and int() must accept what follows ": "; otherwise
\* the "Error" embed is sent ("Cannot identify user from appeal." /
\* "Cannot parse User ID."), here RecordMalformed
parse_footer(footer) ==
    IF footer.label # "User ID:" \/ ~footer.digits THEN "RecordMalformed" ELSE "Modal"

\* A member presses Approve or Reject on a record that still has its
\* buttons: interaction_check, then approve / reject, which opens the
\* reason modal for the subject read from the footer
PressReview(a, r, action) ==
    /\ records[r].view
    /\ LET chk == review_check(a)
           resp == IF chk = "ok" THEN parse_footer(records[r].footer) ELSE chk
       IN  /\ last' = [op |-> action, resp |-> resp]
           /\ records' = [records EXCEPT
                 ![r].pressed = @ \cup {<< a, action >>},
                 ![r].modals = IF resp = "Modal" THEN @ \cup {<< a, action >>} ELSE @]
    /\ UNCHANGED << settings, chans, tasks, cmds, convs, transcript >>

\* AppealReasonModal.on_submit of a modal opened by approve or reject: an
\* approval deletes the subject's blacklist entry if there is one; the
\* subject is sent a DM (dm_ok), or the send raises and that is printed;
\* the outcome is written on the record and its buttons are removed.  Nothing tests whether the record already has an
\* outcome.  No modal is ever opened while interaction_check raises, so
\* this step is part of no next-state relation below.
SubmitReason(a, r, action, dm_ok) ==
    /\ << a, action >> \in records[r].modals
    /\ settings' = IF action = "Approve"
                   THEN [settings EXCEPT !.blacklist = @ \ {records[r].subject}]
                   ELSE settings
    /\ records' = [records EXCEPT
          ![r].modals = @ \ {<< a, action >>},
          ![r].status = action,
          ![r].view = FALSE,
          ![r].outcomes = @ + 1,
          ![r].notified = IF dm_ok THEN @ + 1 ELSE @]
    /\ last' = [op |-> action, resp |-> "ActionComplete"]
    /\ UNCHANGED << chans, tasks, cmds, convs, transcript >>

----------------------------------------------------------------------------
(* The transcript of a channel *)

\* Text is kept as a sequence of runs: run [w, n] is n characters whose
\* UTF-8 encoding takes w bytes each (w = 1: ASCII, as the timestamps and
\* line breaks generate_transcript writes; w = 2..4: other characters of
\* names and messages).  Bytes are kept as the runs of whole characters,
\* partial stray bytes of a character cut short after them, and whether
\* the truncation marker follows.

\* len(text.encode('utf-8'))
RECURSIVE ByteLen(_)
ByteLen(runs) ==
    IF runs = << >> THEN 0
    ELSE Head(runs).w * Head(runs).n + ByteLen(Tail(runs))

\* text.encode('utf-8')
Encode(runs) == [runs |-> runs, partial |-> 0, marker |-> FALSE]

\* the length of the bytes object
OutLen(bytes) ==
    ByteLen(bytes.runs) + bytes.partial + (IF bytes.marker THEN MarkerLen ELSE 0)

\* encoded_content[:k]: the first k bytes; the cut may fall inside a
\* character and leave k % w bytes of it
RECURSIVE Slice(_, _)
Slice(runs, k) ==
    IF runs = << >> \/ k = 0 THEN [runs |-> << >>, partial |-> 0, marker |-> FALSE]
    ELSE LET r == Head(runs)
             size == r.w * r.n
         IN  IF size <= k
             THEN LET rest == Slice(Tail(runs), k - size)
                  IN  [rest EXCEPT !.runs = << r >> \o @]
             ELSE [runs |-> IF k \div r.w > 0
                            THEN << [w |-> r.w, n |-> k \div r.w] >> ELSE << >>,
                   partial |-> k % r.w, marker |-> FALSE]

\* bytes.decode('utf-8', errors='ignore'): bytes that form no whole
\* character are dropped
Decode(bytes) == bytes.runs

\* "No messages were sent in this ticket."
EmptyContent == << [w |-> 1, n |-> EmptyLen] >>

\* max_size = 7 * 1024 * 1024 + 512 * 1024
MaxSize == 7 * 1024 * 1024 + 512 * 1024

\* a cut at max_size itself
cut_size_full == MaxSize

\* max_size - 200, where the encoded content is cut
cut_size == MaxSize - Reserve

\* generate_transcript from the joined text on: the bytes of the file
generate_transcript(text) ==
    LET content == IF text = << >> THEN EmptyContent ELSE text
        encoded == Encode(content)
    IN  IF OutLen(encoded) > MaxSize
        THEN [Encode(Decode(Slice(content, cut_size))) EXCEPT !.marker = TRUE]
        ELSE encoded

NoTranscript == [text |-> << >>, done |-> FALSE, file |-> Encode(<< >>)]

\* messages are posted in the channel: the joined text grows by a run
PostMessages(run) ==
    /\ ~transcript.done
    /\ transcript' = [transcript EXCEPT !.text = Append(@, run)]
    /\ UNCHANGED << settings, chans, tasks, cmds, last, convs, records >>

\* generate_transcript is run on the channel
GenerateTranscript ==
    /\ ~transcript.done
    /\ transcript' = [transcript EXCEPT !.done = TRUE,
                                        !.file = generate_transcript(transcript.text)]
    /\ UNCHANGED << settings, chans, tasks, cmds, last, convs, records >>

----------------------------------------------------------------------------
(* Specifications *)

\* members who press creation buttons; actors of the ticket commands; of
\* the /mod commands and their targets; of the ticket buttons and commands
\* in SpecLife; of the review buttons; lengths of appeal answers
PanelUsers == {1, 12}
CmdActors == {1, 2, 3, 4}
ModActors == {3}
ModTargets == {1}
LifeActors == {1, 2}
\* who presses the close and delete buttons: the owner, a staff member, and
\* a member who is neither
ButtonActors == {1, 2, 12}
ReviewActors == {1, 2, 3}
SubmitSteps == {"press", "send"}
AnswerLens == {0, MinAnswerLen - 1, MinAnswerLen}
\* who writes messages while a question waits: the bot itself (0, its
\* prompts and notices are messages too), the appealing member and another
\* member; and where: the two members' DM channels and a guild channel
MsgAuthors == {0, 1, 12}
MsgChannels == {DmChannel(1), DmChannel(12), << "guild", 0 >>}

\* Tickets that exist when the process starts: the guild outlives the
\* process, and setup_hook registers the persistent views that serve the
\* buttons of such channels.  OpenTicket is a ticket of member 1 as
\* create_ticket_channel left it; OldTicket is one that has been moved to
\* the archive category.
OpenTicket(ty) ==
    [owner |-> 1, type |-> ty, num |-> DefaultCounter, topic |-> NewTopic(1, ty),
     cat |-> "ticket", name |-> "created", task |-> 0, buttons |-> TRUE]

OldTicket ==
    [owner |-> 1, type |-> "ticket", num |-> DefaultCounter, topic |-> NewTopic(1, "ticket"),
     cat |-> "archive", name |-> "closed", task |-> 0, buttons |-> TRUE]

\* a Review Record that is in the staff appeal channel when the process
\* starts; setup_hook registers AppealReviewView to serve its buttons
OldRecord == NewRecord(1, 0)

\* a message of the bot in the appeal channel that carries the review
\* buttons and whose footer does not read as "User ID: <number>"
BadRecord ==
    [OldRecord EXCEPT !.footer = [label |-> "User ID:", digits |-> FALSE, id |-> 0]]

InitCommon ==
    /\ tasks = << >>
    /\ cmds = {}
    /\ last = NoLast
    /\ convs = << >>
    /\ transcript = NoTranscript

\* the steps of the creation tasks of members who passed the gate
TicketSteps ==
    \/ \E t \in 1..Len(tasks) : Allocate(t)
    \/ \E t \in 1..Len(tasks), ok \in BOOLEAN : Create(t, ok)
    \/ \E t \in 1..Len(tasks) : TryoutComplete(t)
    \/ \E t \in 1..Len(tasks) : TryoutTimeout(t)
    \/ \E t \in 1..Len(tasks) : TryoutDelete(t)

\* Spec: the blacklist gate and ticket creation, with the blacklist
\* commands of the administrators
Init ==
    /\ \E cfg \in InitConfigs :
          settings = [ticket_counter |-> DefaultCounter, blacklist |-> {}, cfg |-> cfg]
    /\ chans = << >>
    /\ records = << >>
    /\ InitCommon

Next ==
    \/ Len(tasks) < MaxTasks /\ \E m \in PanelUsers, ty \in TicketTypes : Press(m, ty)
    \/ \E t \in 1..Len(tasks), ok \in BOOLEAN : SendAppealDm(t, ok)
    \/ TicketSteps
    \/ \E a \in ModActors, m \in ModTargets : ModBlacklist(a, m)
    \/ \E a \in ModActors, m \in ModTargets : ModUnblacklist(a, m)

Spec == Init /\ [][Next]_vars

\* SpecStaff: the /ticket commands of plain members, staff and
\* administrators on an open ticket of member 1
InitStaff ==
    /\ \E ty \in TicketTypes, cfg \in {AllOk, [AllOk EXCEPT !.staff_role = "stale"]} :
          /\ settings = [ticket_counter |-> DefaultCounter + 1, blacklist |-> {},
                         cfg |-> cfg]
          /\ chans = << OpenTicket(ty) >>
    /\ records = << >>
    /\ InitCommon

NextStaff ==
    \/ Cardinality(cmds) < MaxPending /\ \E a \in CmdActors, c \in ChanIdx : ClaimCmd(a, c)
    \/ Cardinality(cmds) < MaxPending /\ \E a \in CmdActors, c \in ChanIdx : UnclaimCmd(a, c)
    \/ Cardinality(cmds) < MaxPending /\ \E a \in CmdActors, c \in ChanIdx : RenameCmd(a, c)
    \/ \E cmd \in cmds, ok \in BOOLEAN : Edit(cmd, ok)

SpecStaff == InitStaff /\ [][NextStaff]_vars

\* SpecLife: the life of tryout tickets of member 1, the one type whose
\* flow deletes a channel, beside a ticket archived earlier: creation, the
\* application, claim and unclaim, the close and delete buttons
InitLife ==
    /\ \E old \in { << >>, << OldTicket >>, << OpenTicket("tryout") >> } :
          /\ settings = [ticket_counter |-> DefaultCounter + Len(old),
                         blacklist |-> {}, cfg |-> AllOk]
          /\ chans = old
    /\ records = << >>
    /\ InitCommon

NextLife ==
    \/ Len(tasks) < MaxLifeTasks /\ Press(1, "tryout")
    \/ TicketSteps
    \/ Cardinality(cmds) < MaxPending /\ \E a \in LifeActors, c \in ChanIdx : ClaimCmd(a, c)
    \/ Cardinality(cmds) < MaxPending /\ \E a \in LifeActors, c \in ChanIdx : UnclaimCmd(a, c)
    \/ \E cmd \in cmds, ok \in BOOLEAN : Edit(cmd, ok)
    \/ \E a \in ButtonActors, c \in ChanIdx : PressClose(a, c)
    \/ \E a \in ButtonActors, c \in ChanIdx : PressDelete(a, c)

SpecLife == InitLife /\ [][NextLife]_vars

\* SpecAppeal: member 1 is blacklisted and presses a creation button; the
\* appeal conversation in the DM
InitAppeal ==
    /\ \E cfg \in {AllOk, [AllOk EXCEPT !.appeal_channel = "none"],
                           [AllOk EXCEPT !.appeal_channel = "stale"]} :
          settings = [ticket_counter |-> DefaultCounter, blacklist |-> {1}, cfg |-> cfg]
    /\ chans = << >>
    /\ records = << >>
    /\ InitCommon

NextAppeal ==
    \/ Len(tasks) < MaxAppealTasks /\ Press(1, "ticket")
    \/ \E t \in 1..Len(tasks), ok \in BOOLEAN : SendAppealDm(t, ok)
    \/ \E v \in 1..Len(convs) : StartAppeal(v)
    \/ \E v \in 1..Len(convs) : StartTimeout(v)
    \/ \E author \in MsgAuthors, chan \in MsgChannels,
          n \in AnswerLens, delok \in BOOLEAN :
          /\ \A v \in 1..Len(convs) :
                (Waiting(convs[v]) /\ wait_check(convs[v], author, chan))
                => /\ n < MinAnswerLen => convs[v].short < MaxShort
                   /\ convs[v].err = 0 => delok
          /\ Message(author, chan, n, delok)
    \/ \E v \in 1..Len(convs), kind \in {"timeout", "error"}, env \in DeleteEnvs :
          QuestionFail(v, kind, env)
    \/ \E v \in 1..Len(convs), step \in SubmitSteps, ok \in BOOLEAN, env \in DeleteEnvs :
          /\ step = "press" => ~convs[v].submitted
          /\ Submit(v, step, ok, env)
    \/ \E v \in 1..Len(convs), env \in DeleteEnvs : Cancel(v, env)
    \/ \E v \in 1..Len(convs) : ConfirmTimeout(v)
    \/ \E v \in 1..Len(convs), env \in DeleteEnvs : TimeoutCleanup(v, env)

SpecAppeal == InitAppeal /\ [][NextAppeal]_vars

\* SpecReview: the review buttons of the records that are in the staff
\* appeal channel when the process starts; member 1 is blacklisted
InitReview ==
    /\ settings = [ticket_counter |-> DefaultCounter, blacklist |-> {1}, cfg |-> AllOk]
    /\ chans = << >>
    /\ records \in {<< OldRecord >>, << BadRecord >>, << OldRecord, BadRecord >>}
    /\ InitCommon

NextReview ==
    \E a \in ReviewActors, r \in 1..Len(records), action \in {"Approve", "Reject"} :
        PressReview(a, r, action)

SpecReview == InitReview /\ [][NextReview]_vars

\* The history of one channel and its transcript.  The runs posted are
\* single characters of each width and stretches of them whose lengths put
\* the text on either side of max_size and the cut inside a character.
RunLens == {1, Reserve, cut_size - 2}

InitTranscript ==
    /\ settings = [ticket_counter |-> DefaultCounter, blacklist |-> {}, cfg |-> AllOk]
    /\ chans = << >>
    /\ records = << >>
    /\ InitCommon

NextTranscript ==
    \/ \E w \in 1..4, n \in RunLens :
          Len(transcript.text) < MaxRuns /\ PostMessages([w |-> w, n |-> n])
    \/ GenerateTranscript

SpecTranscript == InitTranscript /\ [][NextTranscript]_vars

\* SpecBusy: members 1 and 12 are blacklisted and take the appeal
\* conversation, each in its own DM channel, while staff member 2 opens a
\* ticket and works on tickets and on a Review Record: every handler is a
\* task of the one event loop, and a step is what a task does between two
\* awaits
BusyAppellants == {1, 12}
BusyStaff == {2}

InitBusy ==
    /\ settings = [ticket_counter |-> DefaultCounter,
                   blacklist |-> BusyAppellants, cfg |-> AllOk]
    /\ chans = << >>
    /\ records = << OldRecord >>
    /\ InitCommon

NextBusy ==
    \/ Len(tasks) < MaxBusyTasks
          /\ \E m \in BusyAppellants \cup BusyStaff : Press(m, "ticket")
    \/ \E t \in 1..Len(tasks) : SendAppealDm(t, TRUE)
    \/ \E t \in 1..Len(tasks) : Allocate(t)
    \/ \E t \in 1..Len(tasks) : Create(t, TRUE)
    \/ \E v \in 1..Len(convs) : StartAppeal(v)
    \/ \E m \in BusyAppellants : Message(m, DmChannel(m), MinAnswerLen, TRUE)
    \/ Cardinality(cmds) < MaxPending /\ \E a \in BusyStaff, c \in ChanIdx : ClaimCmd(a, c)
    \/ Cardinality(cmds) < MaxPending /\ \E a \in BusyStaff, c \in ChanIdx : UnclaimCmd(a, c)
    \/ \E cmd \in cmds : Edit(cmd, TRUE)
    \/ \E a \in BusyStaff, c \in ChanIdx : PressClose(a, c)
    \/ \E a \in BusyStaff, c \in ChanIdx : PressDelete(a, c)
    \/ \E a \in BusyStaff, r \in 1..Len(records) : PressReview(a, r, "Approve")

SpecBusy == InitBusy /\ [][NextBusy]_vars

\* SpecSubmit: appeal conversations that no question times out, and their
\* Confirm step, with Submit pressed again and again while the summary still
\* serves its buttons
NextSubmit ==
    \/ Len(tasks) < MaxAppealTasks /\ Press(1, "ticket")
    \/ \E t \in 1..Len(tasks) : SendAppealDm(t, TRUE)
    \/ \E v \in 1..Len(convs) : StartAppeal(v)
    \/ \E n \in AnswerLens, delok \in BOOLEAN :
          /\ \A v \in 1..Len(convs) :
                Waiting(convs[v])
                => /\ n < MinAnswerLen => convs[v].short < MaxShort
                   /\ convs[v].err = 0 => delok
          /\ Message(1, DmChannel(1), n, delok)
    \/ \E v \in 1..Len(convs), step \in SubmitSteps, ok \in BOOLEAN, env \in DeleteEnvs :
          /\ step = "press" => convs[v].presses < MaxSubmits
          /\ Submit(v, step, ok, env)
    \/ \E v \in 1..Len(convs), env \in DeleteEnvs : Cancel(v, env)
    \/ \E v \in 1..Len(convs) : ConfirmTimeout(v)
    \/ \E v \in 1..Len(convs), env \in DeleteEnvs : TimeoutCleanup(v, env)

SpecSubmit == InitAppeal /\ [][NextSubmit]_vars

\* SpecPatience: the questions of the appeal conversation against the
\* clock.  Timers fire: the clock goes on, and a wait_for whose time limit
\* has passed raises.
NextPatience ==
    \/ Len(tasks) < MaxAppealTasks /\ Press(1, "ticket")
    \/ \E t \in 1..Len(tasks) : SendAppealDm(t, TRUE)
    \/ \E v \in 1..Len(convs) : StartAppeal(v)
    \/ \E n \in AnswerLens, delok \in BOOLEAN :
          /\ \A v \in 1..Len(convs) :
                Waiting(convs[v])
                => /\ convs[v].wait < QuestionTicks
                   /\ n < MinAnswerLen => convs[v].short < MaxShort
                   /\ convs[v].err = 0 => delok
          /\ Message(1, DmChannel(1), n, delok)
    \/ \E v \in 1..Len(convs) : Retry(v)
    \/ Tick
    \/ \E v \in 1..MaxAppealTasks, env \in DeleteEnvs : AskTimeout(v, env)

SpecPatience ==
    /\ InitAppeal
    /\ [][NextPatience]_vars
    /\ WF_vars(Tick)
    /\ \A v \in 1..MaxAppealTasks : WF_vars(\E env \in DeleteEnvs : AskTimeout(v, env))

\* SpecRace: the /ticket commands of several staff members on one open
\* ticket, each suspended in its channel.edit while the others run
RaceActors == {2, 3, 4}

NextRace ==
    \/ Cardinality(cmds) < MaxRacing /\ \E a \in RaceActors, c \in ChanIdx : ClaimCmd(a, c)
    \/ Cardinality(cmds) < MaxRacing /\ \E a \in RaceActors, c \in ChanIdx : UnclaimCmd(a, c)
    \/ \E cmd \in cmds, ok \in BOOLEAN : Edit(cmd, ok)

SpecRace == InitStaff /\ [][NextRace]_vars

----------------------------------------------------------------------------
(* Properties *)

ConvIdx == 1..Len(convs)
TaskIdx == 1..Len(tasks)
RecordIdx == 1..Len(records)
Reviewers == StaffMembers \cup Admins

\* open tickets of type ty owned by m in the ticket category
OpenCount(m, ty) ==
    Cardinality({ c \in ChanIdx : /\ chans[c].cat = "ticket"
                                  /\ chans[c].owner = m
                                  /\ chans[c].type = ty })

\* C1: in every reachable state, for every member m and ticket type t, the
\* number of open tickets of type t owned by m in the ticket category is at
\* most the limit of t (3 standard, 1 tryout, 10 report), whatever the
\* interleaving of m's creation tasks.
C1_WithinLimit ==
    \A m \in PanelUsers, ty \in TicketTypes : OpenCount(m, ty) <= Limit(ty)

\* C2: a creation-button press by a member who is in the blacklist map at
\* that moment never creates a ticket: the task is answered "Blacklisted",
\* takes no ticket number, creates no channel and only goes on to send the
\* appeal DM, whatever /mod blacklist and /mod unblacklist do meanwhile.
C2_BlacklistedNeverCreates ==
    /\ \A t \in TaskIdx :
          tasks[t].bl => /\ tasks[t].result = "Blacklisted"
                         /\ tasks[t].pc \in {"appeal_dm", "done"}
                         /\ tasks[t].num = 0
                         /\ tasks[t].chan = 0
    /\ \A c \in ChanIdx : chans[c].task \in TaskIdx /\ ~tasks[chans[c].task].bl

\* a blacklisted member pressed, the appeal DM was delivered, and the
\* member was taken off the blacklist while the task was running
C2_Witness ==
    \E t \in TaskIdx :
        /\ tasks[t].bl /\ tasks[t].pc = "done" /\ tasks[t].dm
        /\ tasks[t].member \notin settings.blacklist
        /\ \E v \in ConvIdx : convs[v].member = tasks[t].member

\* C3: a Review Record is posted for an appeal conversation if and only if
\* the conversation accepted its three answers and the member pressed
\* Submit at the Confirm step.  Stated here is the direction the code
\* breaks: a conversation in which Submit was pressed has its record.
C3_SubmitPostsRecord ==
    \A v \in ConvIdx :
        convs[v].submitted => \E r \in RecordIdx : records[r].conv = v

\* C4: /ticket claim, run by an actor who passes the command's checks on a
\* ticket whose topic carries a claim marker at that moment, is answered
\* "Already Claimed", changes no channel and leaves no edit pending.
C4_ClaimExclusive ==
    [][\A a \in CmdActors, c \in ChanIdx :
          (cmd_checks(a, c) = "ok" /\ HasClaim(chans[c].topic) /\ ClaimCmd(a, c))
          => /\ last' = [op |-> "claim", resp |-> "AlreadyClaimed"]
             /\ chans' = chans
             /\ cmds' = cmds]_vars

\* a claim has just been answered "Already Claimed" on a claimed ticket
C4_Witness ==
    /\ last = [op |-> "claim", resp |-> "AlreadyClaimed"]
    /\ \E c \in ChanIdx : HasClaim(chans[c].topic)

\* C5: /ticket unclaim in an open ticket channel.  On a claimed ticket the
\* claim holder (if still staff) and administrators get the topic edited
\* to one without a claim marker; every other actor is answered
\* "Permission Denied" and nothing changes.  On an unclaimed ticket staff
\* and administrators are answered "Not Claimed" and nothing changes.
C5_UnclaimPermission ==
    [][/\ \A a \in CmdActors, c \in ChanIdx :
            (in_ticket_channel_check(c) /\ UnclaimCmd(a, c)) =>
               LET topic == chans[c].topic
                   staff == is_staff_interaction(a)
               IN  IF HasClaim(topic) /\ staff /\ (a = ClaimerId(topic) \/ a \in Admins)
                   THEN /\ chans' = chans
                        /\ \E cmd \in cmds' :
                              /\ cmds' = cmds \cup {cmd}
                              /\ cmd.kind = "unclaim" /\ cmd.chan = c
                              /\ ~HasClaim(cmd.topic)
                   ELSE /\ chans' = chans
                        /\ cmds' = cmds
                        /\ last'.resp = IF ~HasClaim(topic) /\ staff
                                        THEN "NotClaimed" ELSE "PermissionDenied"
       /\ \A cmd \in cmds :
            (cmd.kind = "unclaim" /\ chans[cmd.chan].cat # "deleted" /\ Edit(cmd, TRUE))
            => ~HasClaim(chans'[cmd.chan].topic)]_vars

\* staff member 4 has just been refused the unclaim of a ticket that
\* staff member 2 holds
C5_Witness ==
    /\ last = [op |-> "unclaim", resp |-> "PermissionDenied"]
    /\ \E c \in ChanIdx : HasClaim(chans[c].topic) /\ ClaimerId(chans[c].topic) = 2
    /\ settings.cfg.staff_role = "ok"

\* C6: Approve on a Review Record of member m removes m's blacklist entry
\* (once; a second Approve removes nothing).  Stated here is what the
\* first Approve owes: once a reviewer has pressed Approve, the reason
\* prompt is open for them, or the record has its outcome, or m is off the
\* blacklist.
C6_ApproveRemovesEntry ==
    \A r \in RecordIdx, a \in Reviewers :
        << a, "Approve" >> \in records[r].pressed
        => \/ << a, "Approve" >> \in records[r].modals
           \/ records[r].status # "open"
           \/ records[r].subject \notin settings.blacklist

\* C7: each Review Record is consumed exactly once: it never gets a second
\* outcome or a second notification, and a reviewer's Approve or Reject
\* leads to the reason prompt and then to the one outcome, after which the
\* buttons are gone.
C7_ConsumedOnce ==
    \A r \in RecordIdx :
        /\ records[r].outcomes <= 1
        /\ records[r].notified <= 1
        /\ \A a \in Reviewers, action \in {"Approve", "Reject"} :
              << a, action >> \in records[r].pressed
              => \/ << a, action >> \in records[r].modals
                 \/ (records[r].outcomes = 1 /\ ~records[r].view)

\* C8: in every reachable state the topic of every existing ticket
\* channel contains the owner marker and the type marker it was created
\* with.
C8_MarkersKept ==
    \A c \in ChanIdx :
        chans[c].cat # "deleted"
        => /\ \E i \in 1..Len(chans[c].topic) : chans[c].topic[i] = OwnerTok(chans[c].owner)
           /\ \E i \in 1..Len(chans[c].topic) : chans[c].topic[i] = TypeTok(chans[c].type)

\* C9, as the claim has it: ticket numbers are strictly increasing in the
\* order in which the tickets are created.
C9_IncreasingInCreationOrder ==
    \A i, j \in ChanIdx : i < j => chans[i].num < chans[j].num

\* C9, amended: no two creation tasks and no two tickets ever get the same
\* number, every number handed out is below the counter, and a number is
\* greater than every number handed out before it, also when creation
\* tasks interleave.
C9_NumbersNeverReused ==
    /\ [](/\ \A t, u \in TaskIdx :
                (t # u /\ tasks[t].num # 0 /\ tasks[u].num # 0)
                => tasks[t].num # tasks[u].num
          /\ \A i, j \in ChanIdx : i # j => chans[i].num # chans[j].num
          /\ \A t \in TaskIdx : tasks[t].num < settings.ticket_counter)
    /\ [][\A t \in TaskIdx :
             (tasks[t].num = 0 /\ tasks'[t].num # 0)
             => \A u \in TaskIdx : tasks[u].num < tasks'[t].num]_vars

\* two tickets exist, and the one created first has the greater number
C9_Witness ==
    /\ Len(chans) = 2
    /\ chans[1].num > chans[2].num

C11_CloseDenied ==
    [][\A a \in ButtonActors, c \in ChanIdx :
          (PressClose(a, c) /\ a # chans[c].owner /\ a \notin Reviewers)
          => (last'.resp = "PermissionDenied" /\ chans' = chans)]_vars

\* C12: Delete by an actor who is neither staff nor an administrator, the
\* ticket's owner included, is answered "Permission Denied" and the ticket
\* is not deleted.
C12_DeleteDenied ==
    [][\A a \in ButtonActors, c \in ChanIdx :
          (PressDelete(a, c) /\ a \notin Reviewers)
          => (last'.resp = "PermissionDenied" /\ chans'[c].cat = chans[c].cat)]_vars

\* C13: a creation press of type t by a member who passes the gate and
\* already has limit(t) open tickets of type t is answered "Limit Reached"
\* and starts no creation (so no channel is made and the counter is left).
C13_LimitRefused ==
    [][\A m \in PanelUsers, ty \in TicketTypes :
          (Press(m, ty) /\ interaction_check(m) = "ok"
                        /\ OpenCount(m, ty) >= Limit(ty))
          => tasks'[Len(tasks')].result = "LimitReached"]_vars

\* C14: once a conversation that reached Confirm has ended by Submit or by
\* Cancel, every accumulated message and the summary are gone from the DM;
\* a submitted conversation has exactly one Review Record, and its footer
\* names the member.
C14_ConfirmEndsClean ==
    \A v \in ConvIdx :
        (convs[v].submitted \/ convs[v].result = "cancelled")
        => /\ convs[v].pc = "done"
           /\ (Range(convs[v].list) \cup {convs[v].summary}) \cap convs[v].dm = {}
           /\ convs[v].submitted
                 => Cardinality({ r \in RecordIdx :
                        /\ records[r].conv = v
                        /\ records[r].subject = convs[v].member }) = 1

C16_MalformedFailsClosed ==
    [][\A a \in ReviewActors, r \in RecordIdx, action \in {"Approve", "Reject"} :
          (PressReview(a, r, action) /\ a \in Reviewers
              /\ parse_footer(records[r].footer) = "RecordMalformed")
          => /\ last'.resp = "RecordMalformed"
             /\ settings' = settings
             /\ records'[r].view = records[r].view
             /\ records'[r].status = records[r].status
             /\ records'[r].notified = records[r].notified]_vars

\* C17: once a reviewer has pressed Approve on a record of member m and
\* given the reason, the record is marked approved, its buttons are gone
\* and m is off the blacklist; after Reject and its reason the record is
\* marked rejected, its buttons are gone and the blacklist is as it was.
C17_OutcomeWritten ==
    \A r \in RecordIdx, a \in Reviewers, action \in {"Approve", "Reject"} :
        (<< a, action >> \in records[r].pressed
            /\ parse_footer(records[r].footer) = "Modal")
        => \/ << a, action >> \in records[r].modals
           \/ /\ records[r].status = action
              /\ ~records[r].view
              /\ action = "Approve" => records[r].subject \notin settings.blacklist
              /\ action = "Reject" => records[r].subject \in settings.blacklist

\* C18: the transcript file is never longer than max_size bytes; when the
\* encoded text is longer than max_size, the file is a prefix of the text
\* cut between two characters, followed by the truncation marker, and
\* holds no stray byte (it is valid UTF-8).
C18_WithinCap ==
    transcript.done
    => /\ OutLen(transcript.file) <= MaxSize
       /\ transcript.file.partial = 0
       /\ ByteLen(transcript.text) > MaxSize
             => /\ transcript.file.marker
                /\ \E k \in (cut_size - 3)..cut_size :
                      /\ Slice(transcript.text, k).partial = 0
                      /\ transcript.file.runs = Slice(transcript.text, k).runs
       /\ ByteLen(transcript.text) <= MaxSize => ~transcript.file.marker

\* a text longer than max_size whose cut fell inside a character
C18_Witness ==
    /\ transcript.done
    /\ ByteLen(transcript.text) > MaxSize
    /\ Slice(transcript.text, cut_size).partial > 0
    /\ transcript.file.marker

\* C19: when the channel.edit of an Unclaim lands, the ticket is Open as it
\* was before the Claim: its topic has no claim marker and holds the owner
\* marker and the type marker the ticket was created with.
C19_UnclaimRestores ==
    [][\A cmd \in cmds :
          (Edit(cmd, TRUE) /\ cmd.kind = "unclaim" /\ chans[cmd.chan].cat # "deleted")
          => LET c == cmd.chan
                 topic == chans'[c].topic
             IN  /\ ~HasClaim(topic)
                 /\ \E i \in 1..Len(topic) : topic[i] = OwnerTok(chans[c].owner)
                 /\ \E i \in 1..Len(topic) : topic[i] = TypeTok(chans[c].type)]_vars

C21_RepromptInPlace ==
    [][\A v \in ConvIdx, n \in AnswerLens, delok \in BOOLEAN :
          (/\ convs[v].pc \in {"q1", "q2"} /\ n < MinAnswerLen
           /\ convs'[v] # convs[v]
           /\ Message(convs[v].member, DmChannel(convs[v].member), n, delok))
          => /\ convs'[v].pc = convs[v].pc
             /\ convs'[v].answers = convs[v].answers
             /\ convs'[v].result = ""
             /\ convs'[v].err = convs'[v].sent
             /\ convs'[v].err \in convs'[v].dm]_vars

\* question 2 was answered too short after question 1 had been answered:
\* the notice is pending and the first answer is kept
C21_Witness ==
    \E v \in ConvIdx :
        /\ convs[v].pc = "q2"
        /\ convs[v].err # 0
        /\ convs[v].answers = {"q1"}

C23_OnlyOwnMessages ==
    [][\A v \in ConvIdx :
          /\ convs'[v] # convs[v]
               => \A author \in MsgAuthors, chan \in MsgChannels,
                        n \in AnswerLens, delok \in BOOLEAN :
                     ~(author = convs[v].member /\ chan = DmChannel(convs[v].member))
                     => ~Message(author, chan, n, delok)
          /\ (convs[v].pc \in {"q1", "q2", "q3"}
                /\ (convs'[v].list # convs[v].list
                       \/ convs'[v].answers # convs[v].answers
                       \/ convs'[v].pc \in {"q2", "q3", "confirm"} \ {convs[v].pc}))
               => \E n \in AnswerLens, delok \in BOOLEAN :
                     Message(convs[v].member, DmChannel(convs[v].member), n, delok)]_vars

\* the member has answered question 1 in the DM channel
C23_Witness ==
    \E v \in ConvIdx : convs[v].pc = "q2" /\ convs[v].answers = {"q1"}

\* C24: a reviewer's Approve or Reject completes whether or not the DM to
\* the subject could be sent: once it is pressed, the reason prompt is open
\* or the record is marked with an outcome and has lost its buttons, with
\* the subject off the blacklist if the outcome is an approval, be the
\* subject notified or not.
C24_CompletesUnnotified ==
    \A r \in RecordIdx, a \in Reviewers, action \in {"Approve", "Reject"} :
        (<< a, action >> \in records[r].pressed
            /\ parse_footer(records[r].footer) = "Modal")
        => \/ << a, action >> \in records[r].modals
           \/ /\ records[r].status # "open" /\ ~records[r].view
              /\ records[r].notified \in {0, 1}
              /\ records[r].status = "Approve"
                    => records[r].subject \notin settings.blacklist

C26_CloseOrdered ==
    [][\A a \in ButtonActors, c \in ChanIdx :
          (PressClose(a, c) /\ (a = chans[c].owner \/ a \in Reviewers))
          => /\ last'.resp = "Modal"
             /\ LET run == close_ticket_logic("ok", TRUE)
                IN  /\ 0 < Pos(run, "transcript")
                    /\ Pos(run, "transcript") < Pos(run, "closure_record")
                    /\ Pos(run, "closure_record") < Pos(run, "grace")
                    /\ Pos(run, "grace") < Pos(run, "archived")]_vars

\* C27: in a Close run whose transcript upload fails the failure is
\* reported in the ticket and the ticket is archived all the same.
C27_UploadFailureArchives ==
    [][\A a \in ButtonActors, c \in ChanIdx :
          (PressClose(a, c) /\ (a = chans[c].owner \/ a \in Reviewers))
          => \A upload \in {"http", "error"} :
                LET run == close_ticket_logic(upload, TRUE)
                IN  /\ 0 < Pos(run, "upload_error")
                    /\ Pos(run, "upload_error") < Pos(run, "archived")]_vars

\* C28: a Delete by staff or an administrator is accepted (the countdown
\* starts), and when the channel is gone by the time the countdown ends,
\* the Delete ends with the channel deleted and no error printed or sent.
C28_DeleteOfGoneSucceeds ==
    [][\A a \in ButtonActors \cap Reviewers, c \in ChanIdx :
          PressDelete(a, c)
          => /\ last'.resp = "Deleting"
             /\ delete_after_sleep("deleted", FALSE)
                   = [cat |-> "deleted", printed |-> ""]]_vars

\* a step leaves conversation v as it is
Kept(v) == convs'[v] = convs[v]

\* C29: while the conversation of one member is suspended in wait_for,
\* the next step of every other operation is enabled and leaves that
\* conversation waiting as it was: a button press of another member, the
\* steps of another member's creation task and appeal DM, another
\* member's conversation (its start and its answers), claim and
\* unclaim and their channel edits, the Close and Delete buttons, and the
\* review buttons.
C29_OthersProceed ==
    \A v \in ConvIdx :
        Waiting(convs[v]) =>
          /\ \A m \in (BusyAppellants \cup BusyStaff) \ {convs[v].member} :
                ENABLED (Press(m, "ticket") /\ Kept(v))
          /\ \A t \in TaskIdx :
                tasks[t].member # convs[v].member =>
                  /\ tasks[t].pc = "appeal_dm" => ENABLED (SendAppealDm(t, TRUE) /\ Kept(v))
                  /\ tasks[t].pc = "deferred" => ENABLED (Allocate(t) /\ Kept(v))
                  /\ tasks[t].pc = "creating" => ENABLED (Create(t, TRUE) /\ Kept(v))
          /\ \A w \in ConvIdx :
                convs[w].member # convs[v].member =>
                  /\ convs[w].pc = "start" => ENABLED (StartAppeal(w) /\ Kept(v))
                  /\ Waiting(convs[w]) =>
                        ENABLED (/\ Message(convs[w].member, DmChannel(convs[w].member),
                                            MinAnswerLen, TRUE)
                                 /\ convs'[w].pc = NextQuestion(convs[w].pc)
                                 /\ Kept(v))
          /\ \A a \in BusyStaff, c \in ChanIdx :
                chans[c].cat = "ticket" =>
                  /\ ENABLED (ClaimCmd(a, c) /\ Kept(v))
                  /\ ENABLED (UnclaimCmd(a, c) /\ Kept(v))
                  /\ ENABLED (PressClose(a, c) /\ Kept(v))
                  /\ ENABLED (PressDelete(a, c) /\ Kept(v))
          /\ \A cmd \in cmds : ENABLED (Edit(cmd, TRUE) /\ Kept(v))
          /\ \A a \in BusyStaff, r \in RecordIdx :
                records[r].view => ENABLED (PressReview(a, r, "Approve") /\ Kept(v))

\* member 1 has not answered question 1 yet, and meanwhile member 2 has
\* opened a ticket, which has since been claimed
C29_Witness ==
    \E v \in ConvIdx, t \in TaskIdx :
        /\ convs[v].member = 1 /\ convs[v].pc = "q1" /\ convs[v].user = {}
        /\ tasks[t].member = 2 /\ tasks[t].result = "Created"
        /\ HasClaim(chans[tasks[t].chan].topic)

\* C30: with the ticket category in place, the count the limit test uses
\* for member m and type ty is the number of tickets in the ticket
\* category whose owner is m and whose type is ty.
C30_CountIsExact ==
    \A m \in PanelUsers, ty \in TicketTypes :
        settings.cfg.ticket_category = "ok"
        => count_user_tickets(m, settings.cfg.ticket_category, ty) = OpenCount(m, ty)

\* C31: a Claim is never reported successful on a ticket that carries a
\* claim marker already, so of the Claims that interleave on an unclaimed
\* ticket at most one is reported successful; and the holder in the topic
\* after a Claim reported successful is the member who ran it.
C31_OneClaimWins ==
    [][\A cmd \in cmds :
          (cmd.kind = "claim" /\ Edit(cmd, TRUE) /\ chans[cmd.chan].cat # "deleted")
          => /\ ~HasClaim(chans[cmd.chan].topic)
             /\ last'.resp = "claim"
             /\ chans'[cmd.chan].topic = cmd.topic]_vars

\* C32: no two question flows of one member wait for that member's
\* messages at the same time.
C32_OneConversation ==
    \A v \in ConvIdx, w \in ConvIdx :
        (Waiting(convs[v]) /\ Waiting(convs[w]) /\ convs[v].member = convs[w].member)
        => v = w

C34_QuestionsEnd ==
    \A v \in 1..MaxAppealTasks :
        \A q \in {"q1", "q2", "q3"} :
            (v \in ConvIdx /\ convs[v].pc = q) ~> (v \in ConvIdx /\ convs[v].pc # q)

\* C35: a Close of an open ticket by its owner, staff or an administrator
\* starts a run that archives the ticket, and the archived ticket is
\* outside the category whose channels are counted against the owner's
\* limit.
C35_ClosedNotCounted ==
    [][\A a \in ButtonActors, c \in ChanIdx :
          (/\ PressClose(a, c)
           /\ chans[c].cat = "ticket"
           /\ (a = chans[c].owner \/ a \in Reviewers))
          => /\ last'.resp = "Modal"
             /\ Pos(close_ticket_logic("ok", TRUE), "archived") > 0
             /\ archive_edit(chans[c]).cat # "ticket"]_vars

\* how often a run takes step x
Count(run, x) == Cardinality({ i \in 1..Len(run) : run[i] = x })

\* C36: when two members who may close a ticket both press Close, both
\* get the reason prompt, and the two runs taken together post one
\* closure record and archive the ticket once.
C36_ArchivedOnce ==
    [][\A a \in ButtonActors, b \in ButtonActors, c \in ChanIdx :
          (/\ PressClose(a, c)
           /\ a # b
           /\ (a = chans[c].owner \/ a \in Reviewers)
           /\ (b = chans[c].owner \/ b \in Reviewers))
          => /\ last'.resp = "Modal"
             /\ close_ticket(b, c) = "Modal"
             /\ LET runs == close_ticket_logic("ok", TRUE) \o close_ticket_logic("ok", TRUE)
                IN  /\ Count(runs, "closure_record") = 1
                    /\ Count(runs, "archived") = 1]_vars

\* C37: when staff press Delete on a ticket and a member who may close it
\* presses Close, the Delete is accepted and deletes the channel, the
\* Close gets its reason prompt, and the Close run, whose channel.edit
\* finds the channel gone, raises nothing unhandled.
C37_DeleteBeatsClose ==
    [][\A a \in ButtonActors \cap Reviewers, b \in ButtonActors, c \in ChanIdx :
          (PressDelete(a, c) /\ (b = chans[c].owner \/ b \in Reviewers))
          => /\ last'.resp = "Deleting"
             /\ delete_after_sleep(chans[c].cat, FALSE).cat = "deleted"
             /\ close_ticket(b, c) = "Modal"
             /\ Pos(close_ticket_logic("ok", FALSE), "AttributeError") = 0]_vars

\* C38: a press of Submit reaches the posting of the Review Record; when
\* the posting is refused, no record is added, the member is answered
\* with the error, and the listed messages and the summary are deleted
\* (but for the member's own messages where their deletion is refused).
C38_FailedPostCleansUp ==
    [][\A v \in ConvIdx, env \in DeleteEnvs :
          /\ Submit(v, "press", FALSE, env)
                => convs'[v].sending = convs[v].sending + 1
          /\ Submit(v, "send", FALSE, env)
                => /\ records' = records
                   /\ last'.resp = "Error"
                   /\ convs'[v].pc = "done"
                   /\ (Range(convs[v].list) \cup {convs[v].summary})
                          \cap convs'[v].dm \subseteq convs[v].user]_vars

\* C39: when a tryout ticket whose application timed out has been deleted,
\* its owner's count of open tryout tickets is zero and the owner's next
\* press of the tryout button is let through to creation.
C39_TimeoutFreesSlot ==
    [][\A t \in TaskIdx :
          TryoutDelete(t)
          => /\ chans'[tasks[t].chan].cat = "deleted"
             /\ (count_user_tickets(tasks[t].member, settings.cfg.ticket_category,
                                    "tryout") = 0)'
             /\ (button_check(tasks[t].member, "tryout") = "defer")']_vars

\* C40: whenever no creation is under way between the counter update and
\* the return of create_text_channel, the ticket counter minus one is the
\* number of channels ever created.
C40_CounterCountsCreated ==
    (\A t \in TaskIdx : tasks[t].pc # "creating")
    => settings.ticket_counter - 1 = Len(chans)

====
